---------------------------- MODULE Spec2Model ----------------------------
(***************************************************************************)
(* A model of CarbsCals (src/application.js): the food collection, the     *)
(* filter/sort pipeline, the keto colouring of the rendered cards and the  *)
(* shopping list with its totals.                                          *)
(*                                                                         *)
(* Representation.                                                         *)
(*   - A JavaScript string on which the code works character by character  *)
(*     (food names, the search box, the numeric inputs) is a sequence of   *)
(*     one-character strings: "Ham" is <<"H", "a", "m">>.                  *)
(*   - Decimal nutrition values are integers in tenths (carbs 10.0 g is    *)
(*     100); calories are integers.  A multiplier (quantity / 100) is an   *)
(*     integer in hundredths, so the multiplier 1.5 is 150.  All           *)
(*     arithmetic is exact; IEEE rounding of the sums is not modelled.     *)
(*   - A value that may be null or NaN is a sequence of at most one        *)
(*     element: Null and NaN are <<>>, the number n is <<n>>.              *)
(***************************************************************************)
EXTENDS Integers, Sequences, FiniteSets, TLC

VARIABLES
    allFoods,           \* application.js:2   the Food collection (an array)
    maxDailyCarbs,      \* application.js:5   the budget, Null when unset
    currentSortOption,  \* application.js:8
    shoppingList,       \* application.js:11  name -> [count, multiplier]
    loadState,          \* the fetch of loadFoodData: "pending", "loaded", "failed"
    foodNameOptions,    \* the values of the #foodName select's options
    categoryOptions,    \* the values of the #categoryFilter select's options
    foodName,           \* #foodName.value
    carbsFilter,        \* #carbsFilter.value
    caloriesFilter,     \* #caloriesFilter.value
    categoryFilter,     \* #categoryFilter.value
    searchInput,        \* #searchInput.value
    maxCarbsInput,      \* #maxCarbsInput.value
    results,            \* #resultsContainer: "initial", "cards", "no-results", "error"
    cards,              \* the .food-card elements of #resultsContainer, in order
    shoppingListView,   \* #shoppingListContainer: the rendered items, or "Nothing..."
    totals,             \* #totalCarbs, #totalCalories, #totalFat; <<>> is the page's own text
    parserCall          \* the last call of parseCSVToFoods or parseCSVLine, with its result

vars == <<allFoods, maxDailyCarbs, currentSortOption, shoppingList, loadState,
          foodNameOptions, categoryOptions, foodName, carbsFilter,
          caloriesFilter, categoryFilter, searchInput, maxCarbsInput,
          results, cards, shoppingListView, totals, parserCall>>

-----------------------------------------------------------------------------
(* Bounds of the model.                                                    *)

\* The longest dataset a load delivers.
MaxFoods == 2

\* The largest count an entry of the shopping list is driven to.
MaxCount == 2

-----------------------------------------------------------------------------
(* JavaScript strings as sequences of characters.                          *)

UpperChars == <<"A","B","C","D","E","F","G","H","I","J","K","L","M",
                "N","O","P","Q","R","S","T","U","V","W","X","Y","Z">>

LowerChars == <<"a","b","c","d","e","f","g","h","i","j","k","l","m",
                "n","o","p","q","r","s","t","u","v","w","x","y","z">>

DigitChars == <<"0","1","2","3","4","5","6","7","8","9">>

Range(s) == {s[i] : i \in DOMAIN s}

IndexOf(c, s) == CHOOSE i \in DOMAIN s : s[i] = c

IsWhitespace(c) == c \in {" ", "\t", "\n", "\r"}

IsDigit(c) == c \in Range(DigitChars)

\* String.prototype.toLowerCase, one character.
LowerChar(c) ==
    IF c \in Range(UpperChars) THEN LowerChars[IndexOf(c, UpperChars)] ELSE c

\* String.prototype.toLowerCase.
ToLowerCase(s) == [i \in DOMAIN s |-> LowerChar(s[i])]

\* String.prototype.trim.
RECURSIVE TrimStart(_)
TrimStart(s) ==
    IF s # <<>> /\ IsWhitespace(Head(s)) THEN TrimStart(Tail(s)) ELSE s

RECURSIVE TrimEnd(_)
TrimEnd(s) ==
    IF s # <<>> /\ IsWhitespace(s[Len(s)])
    THEN TrimEnd(SubSeq(s, 1, Len(s) - 1))
    ELSE s

Trim(s) == TrimEnd(TrimStart(s))

\* String.prototype.includes.
Includes(s, t) ==
    \E i \in 0..(Len(s) - Len(t)) : SubSeq(s, i + 1, i + Len(t)) = t

\* The value of a run of decimal digits.
RECURSIVE DigitsValue(_)
DigitsValue(s) ==
    IF s = <<>> THEN 0
    ELSE 10 * DigitsValue(SubSeq(s, 1, Len(s) - 1))
         + (IndexOf(s[Len(s)], DigitChars) - 1)

\* The longest prefix of s made of digits.
RECURSIVE DigitPrefix(_)
DigitPrefix(s) ==
    IF s # <<>> /\ IsDigit(Head(s)) THEN <<Head(s)>> \o DigitPrefix(Tail(s))
    ELSE <<>>

Null == <<>>

NaN == <<>>

Num(n) == <<n>>

ValueOf(x) == x[1]

\* parseInt(s, 10): leading whitespace, an optional sign, then the digits up
\* to the first other character; NaN when there is no digit.
ParseInt(s) ==
    LET t == TrimStart(s)
        signed == t # <<>> /\ Head(t) \in {"-", "+"}
        body == IF signed THEN Tail(t) ELSE t
        digits == DigitPrefix(body)
    IN  IF digits = <<>> THEN NaN
        ELSE IF signed /\ Head(t) = "-" THEN Num(0 - DigitsValue(digits))
        ELSE Num(DigitsValue(digits))

\* String(n) of a non-negative integer.
RECURSIVE NatToString(_)
NatToString(n) ==
    IF n < 10 THEN <<DigitChars[n + 1]>>
    ELSE NatToString(n \div 10) \o <<DigitChars[(n % 10) + 1]>>

-----------------------------------------------------------------------------
(* Foods.  A Food is the object parseCSVToFoods builds (application.js     *)
(* 489-497): name, protein, fat, carbs, calories, category, cholesterol.   *)

Ham == <<"H", "a", "m">>

Yam == <<"Y", "a", "m">>

\* Two rows of the dataset may carry the same name (the parser keeps both):
\* HamA and HamB do.
HamA == [name |-> Ham, category |-> "meat", protein |-> 200, fat |-> 5,
         carbs |-> 100, calories |-> 200, cholesterol |-> 1]

HamB == [name |-> Ham, category |-> "deli", protein |-> 150, fat |-> 205,
         carbs |-> 0, calories |-> 510, cholesterol |-> 1]

YamC == [name |-> Yam, category |-> "veg", protein |-> 15, fat |-> 10,
         carbs |-> 80, calories |-> 118, cholesterol |-> 0]

FoodPool == {HamA, HamB, YamC}

RECURSIVE SeqsUpTo(_, _)
SeqsUpTo(S, n) ==
    IF n = 0 THEN {<<>>}
    ELSE LET shorter == SeqsUpTo(S, n - 1)
         IN  shorter \cup {Append(s, x) : s \in shorter, x \in S}

\* What a successful load can deliver: every sequence of foods of the pool,
\* in any order, repeated names included.
Datasets == SeqsUpTo(FoodPool, MaxFoods)

-----------------------------------------------------------------------------
(* The filter/sort pipeline: filterFoods and sortFoods.                    *)

\* n grams in the model's tenths.
Grams(n) == 10 * n

\* The values the #carbsFilter, #caloriesFilter and #sortBy selects offer;
\* "" is the option that selects nothing.
CarbsFilterValues ==
    {"", "very-low", "low", "medium-low", "medium", "medium-high", "high"}

CaloriesFilterValues == {"", "low", "medium", "high"}

SortOptions ==
    {"alphabetical", "carbs-high-low", "carbs-low-high", "calories-high-low",
     "calories-low-high", "fat-high-low", "fat-low-high"}

\* A slip: the first band is closed at 10 g, so 10.0 g is in two bands.
CarbsBand_ClosedAtTen(food, selected) ==
    CASE selected = "very-low"    -> food.carbs <= Grams(10)
      [] selected = "low"         -> food.carbs >= Grams(10) /\ food.carbs < Grams(20)
      [] selected = "medium-low"  -> food.carbs >= Grams(20) /\ food.carbs < Grams(30)
      [] selected = "medium"      -> food.carbs >= Grams(30) /\ food.carbs < Grams(40)
      [] selected = "medium-high" -> food.carbs >= Grams(40) /\ food.carbs < Grams(50)
      [] selected = "high"        -> food.carbs >= Grams(50)
      [] OTHER                    -> TRUE

\* The switch on selectedCarbsFilter.
CarbsBand(food, selected) ==
    CASE selected = "very-low"    -> food.carbs < Grams(10)
      [] selected = "low"         -> food.carbs >= Grams(10) /\ food.carbs < Grams(20)
      [] selected = "medium-low"  -> food.carbs >= Grams(20) /\ food.carbs < Grams(30)
      [] selected = "medium"      -> food.carbs >= Grams(30) /\ food.carbs < Grams(40)
      [] selected = "medium-high" -> food.carbs >= Grams(40) /\ food.carbs < Grams(50)
      [] selected = "high"        -> food.carbs >= Grams(50)
      [] OTHER                    -> TRUE

\* The switch on selectedCaloriesFilter.
CaloriesBand(food, selected) ==
    CASE selected = "low"    -> food.calories < 200
      [] selected = "medium" -> food.calories >= 200 /\ food.calories <= 500
      [] selected = "high"   -> food.calories > 500
      [] OTHER               -> TRUE

\* The five steps of filterFoods, each an Array.prototype.filter that the code
\* runs only when its control holds a value.
FilterByName(foods, selectedFoodName) ==
    LET Keep(food) == food.name = selectedFoodName
    IN  IF selectedFoodName # <<>> THEN SelectSeq(foods, Keep) ELSE foods

FilterByCarbs(foods, selectedCarbsFilter) ==
    LET Keep(food) == CarbsBand(food, selectedCarbsFilter)
    IN  IF selectedCarbsFilter # "" THEN SelectSeq(foods, Keep) ELSE foods

FilterByCalories(foods, selectedCaloriesFilter) ==
    LET Keep(food) == CaloriesBand(food, selectedCaloriesFilter)
    IN  IF selectedCaloriesFilter # "" THEN SelectSeq(foods, Keep) ELSE foods

FilterByCategory(foods, selectedCategoryFilter) ==
    LET Keep(food) == food.category = selectedCategoryFilter
    IN  IF selectedCategoryFilter # "" THEN SelectSeq(foods, Keep) ELSE foods

\* A slip: the search filters from two characters on.
SearchActive_AtTwo(searchTerm) == Len(searchTerm) >= 2

\* searchTerm is the trimmed value of the search box.
SearchActive(searchTerm) == Len(searchTerm) >= 3

FilterBySearch(foods, searchTerm) ==
    LET searchLower == ToLowerCase(searchTerm)
        Keep(food) == Includes(ToLowerCase(food.name), searchLower)
    IN  IF SearchActive(searchTerm) THEN SelectSeq(foods, Keep) ELSE foods

\* The controls filterFoods reads, as one record.
Criteria(name, carbsSel, caloriesSel, categorySel, search) ==
    [foodName |-> name, carbsFilter |-> carbsSel, caloriesFilter |-> caloriesSel,
     categoryFilter |-> categorySel, searchInput |-> search]

\* A slip: the category step filters allFoods, not filteredFoods, and so
\* drops what the steps before it had narrowed.
FilteredFoods_CategoryRestarts(foods, c) ==
    FilterBySearch(
        IF c.categoryFilter # ""
        THEN FilterByCategory(foods, c.categoryFilter)
        ELSE FilterByCalories(
                 FilterByCarbs(FilterByName(foods, c.foodName), c.carbsFilter),
                 c.caloriesFilter),
        Trim(c.searchInput))

\* filteredFoods as filterFoods holds it before the sort.
FilteredFoods(foods, c) ==
    FilterBySearch(
        FilterByCategory(
            FilterByCalories(
                FilterByCarbs(
                    FilterByName(foods, c.foodName),
                    c.carbsFilter),
                c.caloriesFilter),
            c.categoryFilter),
        Trim(c.searchInput))

\* Whether filteredFoods is still the array allFoods itself: no filter() call
\* replaced it.
IsSameArray(c) ==
    /\ c.foodName = <<>>
    /\ c.carbsFilter = ""
    /\ c.caloriesFilter = ""
    /\ c.categoryFilter = ""
    /\ ~SearchActive(Trim(c.searchInput))

\* The collation rank of a character: space, digits, letters.
CollationChars == <<" ">> \o DigitChars \o LowerChars

CharRank(c) == IndexOf(LowerChar(c), CollationChars)

\* Lexicographic comparison of two sequences of integers: -1, 0 or 1.
RECURSIVE CompareRanks(_, _)
CompareRanks(a, b) ==
    IF a = <<>> /\ b = <<>> THEN 0
    ELSE IF a = <<>> THEN -1
    ELSE IF b = <<>> THEN 1
    ELSE IF Head(a) < Head(b) THEN -1
    ELSE IF Head(a) > Head(b) THEN 1
    ELSE CompareRanks(Tail(a), Tail(b))

\* String.prototype.localeCompare: the letters decide, whatever their case;
\* between strings with the same letters, lower case comes first.
LocaleCompare(a, b) ==
    LET primary == CompareRanks([i \in DOMAIN a |-> CharRank(a[i])],
                                [i \in DOMAIN b |-> CharRank(b[i])])
        caseOf(s) == [i \in DOMAIN s |-> IF s[i] \in Range(UpperChars) THEN 1 ELSE 0]
    IN  IF primary # 0 THEN primary ELSE CompareRanks(caseOf(a), caseOf(b))

\* The comparator sortFoods hands to Array.prototype.sort.
CompareFoods(a, b, sortOption) ==
    CASE sortOption = "alphabetical"      -> LocaleCompare(a.name, b.name)
      [] sortOption = "carbs-high-low"    -> b.carbs - a.carbs
      [] sortOption = "carbs-low-high"    -> a.carbs - b.carbs
      [] sortOption = "calories-high-low" -> b.calories - a.calories
      [] sortOption = "calories-low-high" -> a.calories - b.calories
      [] sortOption = "fat-high-low"      -> b.fat - a.fat
      [] sortOption = "fat-low-high"      -> a.fat - b.fat
      [] OTHER                            -> 0

\* A slip: x goes before the first element that does not compare smaller,
\* so it overtakes the elements it ties with.
RECURSIVE InsertSorted_BeforeTies(_, _, _)
InsertSorted_BeforeTies(x, sorted, sortOption) ==
    IF sorted = <<>> THEN <<x>>
    ELSE IF CompareFoods(Head(sorted), x, sortOption) >= 0 THEN <<x>> \o sorted
    ELSE <<Head(sorted)>> \o InsertSorted_BeforeTies(x, Tail(sorted), sortOption)

\* Array.prototype.sort is stable: x, which came after every element of the
\* sorted prefix, goes before the first element that compares greater.
RECURSIVE InsertSorted(_, _, _)
InsertSorted(x, sorted, sortOption) ==
    IF sorted = <<>> THEN <<x>>
    ELSE IF CompareFoods(Head(sorted), x, sortOption) > 0 THEN <<x>> \o sorted
    ELSE <<Head(sorted)>> \o InsertSorted(x, Tail(sorted), sortOption)

RECURSIVE SortedPrefix(_, _, _)
SortedPrefix(foods, n, sortOption) ==
    IF n = 0 THEN <<>>
    ELSE InsertSorted(foods[n], SortedPrefix(foods, n - 1, sortOption), sortOption)

\* The array after sortFoods(foods, sortOption), which sorts it in place.
SortFoods(foods, sortOption) == SortedPrefix(foods, Len(foods), sortOption)

-----------------------------------------------------------------------------
(* The cards of the results container and their keto colouring.            *)

\* A card has no colour class, or one of card-green, card-orange, card-red.
NoColor == "none"

\* Array.prototype.find by name: the first food with that name, or nothing.
FindFood(foods, name) ==
    LET hits == {i \in DOMAIN foods : foods[i].name = name}
    IN  IF hits = {} THEN <<>>
        ELSE <<foods[CHOOSE i \in hits : \A j \in hits : i <= j]>>

\* A slip: the first comparison is <= where the code has <.
GetCardColor_RedAtEqual(food, budget) ==
    IF budget = Null THEN NoColor
    ELSE IF 10 * ValueOf(budget) <= food.carbs THEN "red"
    ELSE IF 100 * ValueOf(budget) < 12 * food.carbs THEN "orange"
    ELSE "green"

\* getCardColor: food.carbs is in tenths, the budget in grams, so
\* maxDailyCarbs < foodCarbs is 10 * budget < carbs and
\* maxDailyCarbs < foodCarbs * 1.2 is 100 * budget < 12 * carbs.
GetCardColor(food, budget) ==
    IF budget = Null THEN NoColor
    ELSE IF 10 * ValueOf(budget) < food.carbs THEN "red"
    ELSE IF 100 * ValueOf(budget) < 12 * food.carbs THEN "orange"
    ELSE "green"

\* The value a card's quantity input is rendered with.
DefaultQuantity == <<"1", "0", "0">>

\* displayFoods: one card per food, in order.  A card keeps the food it was
\* built from (its handlers close over it), shows food.name in its h3, and
\* starts with no colour class.
DisplayFoods(foods, list) ==
    [i \in DOMAIN foods |->
        [food |-> foods[i],
         color |-> NoColor,
         quantity |-> DefaultQuantity,
         enabled |-> foods[i].name \in DOMAIN list]]

\* What displayFoods leaves in the container.
ResultsOf(foods) == IF foods = <<>> THEN "no-results" ELSE "cards"

\* colorFoodCards(color).
ColorFoodCards(cs, color) == [i \in DOMAIN cs |-> [cs[i] EXCEPT !.color = color]]

\* colorFoodCardsBasedOnKeto: each card is looked up in allFoods by the text
\* of its h3, and takes the colour of the food found.
ColorFoodCardsBasedOnKeto(cs, foods, budget) ==
    IF budget = Null THEN ColorFoodCards(cs, NoColor)
    ELSE [i \in DOMAIN cs |->
            LET found == FindFood(foods, cs[i].food.name)
            IN  IF found # <<>>
                THEN [cs[i] EXCEPT !.color = GetCardColor(found[1], budget)]
                ELSE cs[i]]

\* refreshButtonStates.
RefreshButtonStates(cs, list) ==
    [i \in DOMAIN cs |->
        [cs[i] EXCEPT !.enabled = /\ cs[i].food.name \in DOMAIN list
                                  /\ list[cs[i].food.name].count > 0]]

-----------------------------------------------------------------------------
(* The shopping list and its totals.                                       *)

EmptyList == [n \in {} |-> [count |-> 0, multiplier |-> 0]]

\* A slip: the multiplier of an existing entry is kept.
AddEntry_KeepsMultiplier(list, name, multiplier) ==
    IF name \in DOMAIN list
    THEN [list EXCEPT ![name].count = @ + 1]
    ELSE [n \in DOMAIN list \cup {name} |->
            IF n = name THEN [count |-> 1, multiplier |-> multiplier] ELSE list[n]]

\* A slip: the multiplier is written to every entry of the list.
AddEntry_RescalesAll(list, name, multiplier) ==
    [n \in DOMAIN list \cup {name} |->
        [count |-> IF n \notin DOMAIN list THEN 1
                   ELSE IF n = name THEN list[n].count + 1
                   ELSE list[n].count,
         multiplier |-> multiplier]]

\* The mapping after the if/else of addToShoppingList.
AddEntry(list, name, multiplier) ==
    IF name \in DOMAIN list
    THEN [list EXCEPT ![name] = [count |-> @.count + 1, multiplier |-> multiplier]]
    ELSE [n \in DOMAIN list \cup {name} |->
            IF n = name THEN [count |-> 1, multiplier |-> multiplier] ELSE list[n]]

\* A slip: the count is lowered to 0 and the entry kept.
RemoveEntry_StoresZero(list, name) == [list EXCEPT ![name].count = @ - 1]

\* A slip: the entry is deleted whatever its count.
RemoveEntry_DeletesAlways(list, name) == [n \in DOMAIN list \ {name} |-> list[n]]

\* The mapping after the if/else of removeFromShoppingList, for a name it holds.
RemoveEntry(list, name) ==
    IF list[name].count > 1
    THEN [list EXCEPT ![name].count = @ - 1]
    ELSE [n \in DOMAIN list \ {name} |-> list[n]]

\* A slip: the entry is written anew, its count back at 1.
SetMultiplier_ResetsCount(list, name, multiplier) ==
    [list EXCEPT ![name] = [count |-> 1, multiplier |-> multiplier]]

\* The mapping after the quantity input's change handler, for a name it holds.
SetMultiplier(list, name, multiplier) ==
    [list EXCEPT ![name].multiplier = multiplier]

\* parseInt(value, 10) || 100, then / 100: the multiplier in hundredths is
\* the quantity itself.
MultiplierOf(quantity) ==
    LET parsed == ParseInt(quantity)
    IN  IF parsed = NaN \/ ValueOf(parsed) = 0 THEN 100 ELSE ValueOf(parsed)

\* Math.round of num / den, den > 0: the nearest integer, a half going up.
RoundDiv(num, den) == (2 * num + den) \div (2 * den)

\* The sum over the keys of the list of field * multiplier * count, a key
\* that allFoods does not hold adding nothing.
RECURSIVE SumOver(_, _, _, _)
SumOver(names, list, foods, field) ==
    IF names = {} THEN 0
    ELSE LET foodName_ == CHOOSE n \in names : TRUE
             item == list[foodName_]
             found == FindFood(foods, foodName_)
             term == IF found # <<>>
                     THEN found[1][field] * item.multiplier * item.count
                     ELSE 0
         IN  term + SumOver(names \ {foodName_}, list, foods, field)

\* updateTotals: the three texts it writes.  Tenths times hundredths are
\* thousandths; calories times hundredths are hundredths.
UpdateTotals(list, foods) ==
    <<[carbs    |-> RoundDiv(SumOver(DOMAIN list, list, foods, "carbs"), 1000),
       calories |-> RoundDiv(SumOver(DOMAIN list, list, foods, "calories"), 100),
       fat      |-> RoundDiv(SumOver(DOMAIN list, list, foods, "fat"), 1000)]>>

\* displayShoppingList: "Nothing..." for an empty list, else per key with
\* count > 0 its count and Math.round(multiplier * 100) grams.
DisplayShoppingList(list) ==
    LET shown == {n \in DOMAIN list : list[n].count > 0}
    IN  [empty |-> shown = {},
         items |-> [n \in shown |->
                      [count |-> list[n].count, grams |-> list[n].multiplier]]]

-----------------------------------------------------------------------------
(* What the user can enter.                                                *)

\* Texts for the search box: empty, two characters, three characters in
\* either case, and two characters between spaces.
SearchTerms ==
    {<<>>, <<"h", "a">>, <<"h", "a", "m">>, <<"Y", "A", "M">>,
     <<" ", "h", "a", " ">>}

\* Texts for the max carbs input: empty, numbers, a negative number, a word,
\* a number followed by a letter.
BudgetInputs ==
    {<<>>, <<"0">>, <<"8">>, <<"1", "0">>, <<"1", "2">>, <<"-", "5">>,
     <<"x">>, <<"8", "x">>}

\* Values for a card's quantity input: 150 g, a negative quantity, nothing.
QuantityInputs == {<<"1", "5", "0">>, <<"-", "5", "0">>, <<>>}

-----------------------------------------------------------------------------
(* The delimited-text parser: parseCSVToFoods and parseCSVLine.  The foods *)
(* it builds carry the category as the characters read from field 8.  A    *)
(* decimal token is read to its first fractional digit, which is all the   *)
(* model's tenths can hold; the tokens of the model have no more.          *)

DQ == "\""

CR == "\r"

LF == "\n"

\* A slip: every comma ends the field, quoted or not.
RECURSIVE ParseCSVLineFrom_SplitsInQuotes(_, _, _, _, _)
ParseCSVLineFrom_SplitsInQuotes(line, i, current, inQuotes, fields) ==
    IF i > Len(line) THEN Append(fields, current)
    ELSE IF line[i] = DQ
    THEN IF inQuotes /\ i + 1 <= Len(line) /\ line[i + 1] = DQ
         THEN ParseCSVLineFrom_SplitsInQuotes(line, i + 2, Append(current, DQ),
                                              inQuotes, fields)
         ELSE ParseCSVLineFrom_SplitsInQuotes(line, i + 1, current, ~inQuotes,
                                              fields)
    ELSE IF line[i] = ","
    THEN ParseCSVLineFrom_SplitsInQuotes(line, i + 1, <<>>, inQuotes,
                                         Append(fields, current))
    ELSE ParseCSVLineFrom_SplitsInQuotes(line, i + 1, Append(current, line[i]),
                                         inQuotes, fields)

\* The loop of parseCSVLine from the character at i (counted from 1) on,
\* and the push of the last field behind it.
RECURSIVE ParseCSVLineFrom(_, _, _, _, _)
ParseCSVLineFrom(line, i, current, inQuotes, fields) ==
    IF i > Len(line) THEN Append(fields, current)
    ELSE IF line[i] = DQ
    THEN IF inQuotes /\ i + 1 <= Len(line) /\ line[i + 1] = DQ
         THEN ParseCSVLineFrom(line, i + 2, Append(current, DQ), inQuotes, fields)
         ELSE ParseCSVLineFrom(line, i + 1, current, ~inQuotes, fields)
    ELSE IF line[i] = "," /\ ~inQuotes
    THEN ParseCSVLineFrom(line, i + 1, <<>>, inQuotes, Append(fields, current))
    ELSE ParseCSVLineFrom(line, i + 1, Append(current, line[i]), inQuotes, fields)

\* parseCSVLine.
ParseCSVLine(line) == ParseCSVLineFrom(line, 1, <<>>, FALSE, <<>>)

\* csvText.split(/\r?\n/): a line ends at each LF, and a CR right before
\* that LF belongs to the line end.
RECURSIVE SplitLines(_)
SplitLines(text) ==
    LET feeds == {p \in DOMAIN text : text[p] = LF}
    IN  IF feeds = {} THEN <<text>>
        ELSE LET p == CHOOSE q \in feeds : \A r \in feeds : q <= r
                 last == IF p > 1 /\ text[p - 1] = CR THEN p - 2 ELSE p - 1
             IN  <<SubSeq(text, 1, last)>>
                 \o SplitLines(SubSeq(text, p + 1, Len(text)))

\* s.replace(/"/g, '').
StripQuotes(s) == SelectSeq(s, LAMBDA c : c # DQ)

\* parseFloat, in tenths: optional white space and sign, digits, and a
\* fraction; NaN when no digit is found.  Exponents are not modelled.
ParseFloat(s) ==
    LET t == TrimStart(s)
        signed == t # <<>> /\ Head(t) \in {"-", "+"}
        body == IF signed THEN Tail(t) ELSE t
        whole == DigitPrefix(body)
        rest == SubSeq(body, Len(whole) + 1, Len(body))
        fraction == IF rest # <<>> /\ Head(rest) = "."
                    THEN DigitPrefix(Tail(rest)) ELSE <<>>
        tenths == 10 * DigitsValue(whole)
                  + (IF fraction = <<>> THEN 0 ELSE DigitsValue(<<Head(fraction)>>))
    IN  IF whole = <<>> /\ fraction = <<>> THEN NaN
        ELSE IF signed /\ Head(t) = "-" THEN Num(0 - tenths)
        ELSE Num(tenths)

\* x || 0 for a number x: NaN and 0 give 0.
OrZero(x) == IF x = NaN THEN 0 ELSE ValueOf(x)

\* 0.1, in tenths.
Trace == 1

\* A slip: the sentinel tokens are parsed like any other token.
DecimalField_NoSentinel(token) == OrZero(ParseFloat(token))

\* (field === 'Tr' || field === 'N') ? 0.1 : (parseFloat(field) || 0).
DecimalField(token) ==
    IF token = <<"T", "r">> \/ token = <<"N">> THEN Trace
    ELSE OrZero(ParseFloat(token))

\* parseInt(field) || 0.
IntegerField(token) == OrZero(ParseInt(token))

\* The object literal of parseCSVToFoods, from the fields of one line.
FoodOfFields(fields) ==
    [name |-> Trim(StripQuotes(fields[1])),
     protein |-> DecimalField(fields[2]),
     fat |-> DecimalField(fields[3]),
     carbs |-> DecimalField(fields[4]),
     calories |-> IntegerField(fields[5]),
     category |-> Trim(StripQuotes(fields[9])),
     cholesterol |-> DecimalField(fields[8])]

\* The test before foods.push(food).
HasValidData(food) ==
    /\ food.name # <<>>
    /\ \/ food.protein > 0
       \/ food.fat > 0
       \/ food.carbs > 0
       \/ food.calories > 0

\* The number of lines parseCSVToFoods skips as headers.
HeaderLines == 3

\* A slip: one header line less is skipped.
FirstDataLine_SkipsTwo == HeaderLines

\* The loop of parseCSVToFoods starts at lines[3], the fourth line.
FirstDataLine == HeaderLines + 1

\* The body of the loop of parseCSVToFoods for one line: the foods it
\* pushes, none or one.
FoodsOfLine(rawLine) ==
    LET line == Trim(rawLine)
        fields == ParseCSVLine(line)
    IN  IF line = <<>> THEN <<>>
        ELSE IF Len(fields) >= 9 /\ HasValidData(FoodOfFields(fields))
        THEN <<FoodOfFields(fields)>>
        ELSE <<>>

RECURSIVE FoodsOfLines(_, _)
FoodsOfLines(lines, i) ==
    IF i > Len(lines) THEN <<>>
    ELSE FoodsOfLine(lines[i]) \o FoodsOfLines(lines, i + 1)

\* parseCSVToFoods.
ParseCSVToFoods(csvText) == FoodsOfLines(SplitLines(csvText), FirstDataLine)

-----------------------------------------------------------------------------
(* The state after DOMContentLoaded: the fetch is under way, the listeners *)
(* are set, displayShoppingList has rendered the empty list.               *)

\* No call of the parser was made yet.
NoCall == [fn |-> "none"]

Init ==
    /\ allFoods = <<>>
    /\ maxDailyCarbs = Null
    /\ currentSortOption = "alphabetical"
    /\ shoppingList = EmptyList
    /\ loadState = "pending"
    /\ foodNameOptions = {<<>>}
    /\ categoryOptions = {""}
    /\ foodName = <<>>
    /\ carbsFilter = ""
    /\ caloriesFilter = ""
    /\ categoryFilter = ""
    /\ searchInput = <<>>
    /\ maxCarbsInput = <<>>
    /\ results = "initial"
    /\ cards = <<>>
    /\ shoppingListView = DisplayShoppingList(EmptyList)
    /\ totals = <<>>
    /\ parserCall = NoCall

-----------------------------------------------------------------------------
(* loadFoodData.                                                           *)

\* The .then(csvText => ...) handler: the parsed dataset becomes allFoods,
\* populateDropdowns adds the options, displayFoods(allFoods) renders every
\* food and colorFoodCardsBasedOnKeto colours the cards.
LoadSuccess(dataset) ==
    /\ loadState = "pending"
    /\ loadState' = "loaded"
    /\ allFoods' = dataset
    /\ foodNameOptions' = foodNameOptions \cup {dataset[i].name : i \in DOMAIN dataset}
    /\ categoryOptions' = categoryOptions \cup {dataset[i].category : i \in DOMAIN dataset}
    /\ results' = ResultsOf(dataset)
    /\ cards' = ColorFoodCardsBasedOnKeto(DisplayFoods(dataset, shoppingList),
                                          dataset, maxDailyCarbs)
    /\ UNCHANGED <<parserCall,
                   maxDailyCarbs, currentSortOption, shoppingList, foodName,
                   carbsFilter, caloriesFilter, categoryFilter, searchInput,
                   maxCarbsInput, shoppingListView, totals>>

\* The .catch handler: displayError replaces the container's content.
LoadFailure ==
    /\ loadState = "pending"
    /\ loadState' = "failed"
    /\ results' = "error"
    /\ cards' = <<>>
    /\ UNCHANGED <<parserCall,
                   allFoods, maxDailyCarbs, currentSortOption, shoppingList,
                   foodNameOptions, categoryOptions, foodName, carbsFilter,
                   caloriesFilter, categoryFilter, searchInput, maxCarbsInput,
                   shoppingListView, totals>>

-----------------------------------------------------------------------------
(* filterFoods and the handlers that call it.                              *)

\* allFoods after filterFoods: sortFoods sorts filteredFoods in place, and
\* filteredFoods is allFoods itself when no filter() call replaced it.
FoodsAfterFilter(foods, c, sortOption) ==
    IF IsSameArray(c) THEN SortFoods(foods, sortOption) ELSE foods

\* filterFoods, run with the controls holding c and the sort option given.
FilterFoods(c, sortOption) ==
    LET sorted == SortFoods(FilteredFoods(allFoods, c), sortOption)
    IN  /\ allFoods' = FoodsAfterFilter(allFoods, c, sortOption)
        /\ results' = ResultsOf(sorted)
        /\ cards' = ColorFoodCardsBasedOnKeto(DisplayFoods(sorted, shoppingList),
                                              allFoods', maxDailyCarbs)

CurrentCriteria ==
    Criteria(foodName, carbsFilter, caloriesFilter, categoryFilter, searchInput)

\* change on #foodName.
ChangeFoodName(v) ==
    /\ v \in foodNameOptions /\ v # foodName
    /\ foodName' = v
    /\ FilterFoods([CurrentCriteria EXCEPT !.foodName = v], currentSortOption)
    /\ UNCHANGED <<parserCall,
                   maxDailyCarbs, currentSortOption, shoppingList, loadState,
                   foodNameOptions, categoryOptions, carbsFilter, caloriesFilter,
                   categoryFilter, searchInput, maxCarbsInput, shoppingListView,
                   totals>>

\* change on #carbsFilter.
ChangeCarbsFilter(v) ==
    /\ v # carbsFilter
    /\ carbsFilter' = v
    /\ FilterFoods([CurrentCriteria EXCEPT !.carbsFilter = v], currentSortOption)
    /\ UNCHANGED <<parserCall,
                   maxDailyCarbs, currentSortOption, shoppingList, loadState,
                   foodNameOptions, categoryOptions, foodName, caloriesFilter,
                   categoryFilter, searchInput, maxCarbsInput, shoppingListView,
                   totals>>

\* change on #caloriesFilter.
ChangeCaloriesFilter(v) ==
    /\ v # caloriesFilter
    /\ caloriesFilter' = v
    /\ FilterFoods([CurrentCriteria EXCEPT !.caloriesFilter = v], currentSortOption)
    /\ UNCHANGED <<parserCall,
                   maxDailyCarbs, currentSortOption, shoppingList, loadState,
                   foodNameOptions, categoryOptions, foodName, carbsFilter,
                   categoryFilter, searchInput, maxCarbsInput, shoppingListView,
                   totals>>

\* change on #categoryFilter.
ChangeCategoryFilter(v) ==
    /\ v \in categoryOptions /\ v # categoryFilter
    /\ categoryFilter' = v
    /\ FilterFoods([CurrentCriteria EXCEPT !.categoryFilter = v], currentSortOption)
    /\ UNCHANGED <<parserCall,
                   maxDailyCarbs, currentSortOption, shoppingList, loadState,
                   foodNameOptions, categoryOptions, foodName, carbsFilter,
                   caloriesFilter, searchInput, maxCarbsInput, shoppingListView,
                   totals>>

\* change on #sortBy.
ChangeSortBy(v) ==
    /\ v # currentSortOption
    /\ currentSortOption' = v
    /\ FilterFoods(CurrentCriteria, v)
    /\ UNCHANGED <<parserCall,
                   maxDailyCarbs, shoppingList, loadState, foodNameOptions,
                   categoryOptions, foodName, carbsFilter, caloriesFilter,
                   categoryFilter, searchInput, maxCarbsInput, shoppingListView,
                   totals>>

\* input on #searchInput: the box now holds v; filterFoods runs when v has
\* three or more characters, or none.
SearchInput(v) ==
    /\ v # searchInput
    /\ searchInput' = v
    /\ IF Len(v) >= 3 \/ Len(v) = 0
       THEN FilterFoods([CurrentCriteria EXCEPT !.searchInput = v], currentSortOption)
       ELSE UNCHANGED <<allFoods, results, cards>>
    /\ UNCHANGED <<parserCall,
                   maxDailyCarbs, currentSortOption, shoppingList, loadState,
                   foodNameOptions, categoryOptions, foodName, carbsFilter,
                   caloriesFilter, categoryFilter, maxCarbsInput,
                   shoppingListView, totals>>

-----------------------------------------------------------------------------
(* updateMaxDailyCarbs: blur or Enter on #maxCarbsInput, which holds v.    *)

UpdateMaxDailyCarbs(v) ==
    LET value == Trim(v)
        numericValue == ParseInt(value)
    IN  /\ IF value = <<>>
           THEN /\ maxDailyCarbs' = Null
                /\ maxCarbsInput' = v
                /\ cards' = ColorFoodCardsBasedOnKeto(cards, allFoods, Null)
           ELSE IF numericValue = NaN \/ ValueOf(numericValue) < 0
           THEN /\ maxCarbsInput' = IF maxDailyCarbs # Null
                                    THEN NatToString(ValueOf(maxDailyCarbs))
                                    ELSE <<>>
                /\ UNCHANGED <<maxDailyCarbs, cards>>
           ELSE /\ maxDailyCarbs' = numericValue
                /\ maxCarbsInput' = v
                /\ cards' = ColorFoodCardsBasedOnKeto(cards, allFoods, numericValue)
        /\ UNCHANGED <<parserCall,
                       allFoods, currentSortOption, shoppingList, loadState,
                       foodNameOptions, categoryOptions, foodName, carbsFilter,
                       caloriesFilter, categoryFilter, searchInput, results,
                       shoppingListView, totals>>

-----------------------------------------------------------------------------
(* The handlers of a card, and the reset button.                           *)

\* click on the + button of card i.
ClickAdd(i) ==
    LET food == cards[i].food
        multiplier == MultiplierOf(cards[i].quantity)
    IN  /\ food.name \in DOMAIN shoppingList => shoppingList[food.name].count < MaxCount
        /\ shoppingList' = AddEntry(shoppingList, food.name, multiplier)
        /\ shoppingListView' = DisplayShoppingList(shoppingList')
        /\ totals' = UpdateTotals(shoppingList', allFoods)
        /\ cards' = RefreshButtonStates(cards, shoppingList')
        /\ UNCHANGED <<parserCall,
                       allFoods, maxDailyCarbs, currentSortOption, loadState,
                       foodNameOptions, categoryOptions, foodName, carbsFilter,
                       caloriesFilter, categoryFilter, searchInput,
                       maxCarbsInput, results>>

\* click on the - button of card i.
ClickRemove(i) ==
    LET food == cards[i].food
    IN  /\ IF food.name \in DOMAIN shoppingList
           THEN /\ shoppingList' = RemoveEntry(shoppingList, food.name)
                /\ shoppingListView' = DisplayShoppingList(shoppingList')
                /\ totals' = UpdateTotals(shoppingList', allFoods)
                /\ cards' = RefreshButtonStates(cards, shoppingList')
           ELSE UNCHANGED <<shoppingList, shoppingListView, totals, cards>>
        /\ UNCHANGED <<parserCall,
                       allFoods, maxDailyCarbs, currentSortOption, loadState,
                       foodNameOptions, categoryOptions, foodName, carbsFilter,
                       caloriesFilter, categoryFilter, searchInput,
                       maxCarbsInput, results>>

\* change on the quantity input of card i, which now holds q.
ChangeQuantity(i, q) ==
    LET food == cards[i].food
    IN  /\ q # cards[i].quantity
        /\ cards' = [cards EXCEPT ![i].quantity = q]
        /\ IF food.name \in DOMAIN shoppingList
           THEN /\ shoppingList' = SetMultiplier(shoppingList, food.name, MultiplierOf(q))
                /\ totals' = UpdateTotals(shoppingList', allFoods)
           ELSE UNCHANGED <<shoppingList, totals>>
        /\ UNCHANGED <<parserCall,
                       allFoods, maxDailyCarbs, currentSortOption, loadState,
                       foodNameOptions, categoryOptions, foodName, carbsFilter,
                       caloriesFilter, categoryFilter, searchInput,
                       maxCarbsInput, results, shoppingListView>>

\* resetShoppingList without its call of updateTotals.
ResetShoppingList_SkipsTotals ==
    /\ shoppingList' = EmptyList
    /\ shoppingListView' = DisplayShoppingList(shoppingList')
    /\ cards' = RefreshButtonStates(cards, shoppingList')
    /\ UNCHANGED <<parserCall,
                   allFoods, maxDailyCarbs, currentSortOption, loadState,
                   foodNameOptions, categoryOptions, foodName, carbsFilter,
                   caloriesFilter, categoryFilter, searchInput, maxCarbsInput,
                   results, totals>>

\* resetShoppingList: click on #resetShoppingListBtn.
ResetShoppingList ==
    /\ shoppingList' = EmptyList
    /\ shoppingListView' = DisplayShoppingList(shoppingList')
    /\ totals' = UpdateTotals(shoppingList', allFoods)
    /\ cards' = RefreshButtonStates(cards, shoppingList')
    /\ UNCHANGED <<parserCall,
                   allFoods, maxDailyCarbs, currentSortOption, loadState,
                   foodNameOptions, categoryOptions, foodName, carbsFilter,
                   caloriesFilter, categoryFilter, searchInput, maxCarbsInput,
                   results>>

-----------------------------------------------------------------------------
(* The application: every handler, in any order.                           *)

Next ==
    \/ \E dataset \in Datasets : LoadSuccess(dataset)
    \/ LoadFailure
    \/ \E v \in foodNameOptions : ChangeFoodName(v)
    \/ \E v \in CarbsFilterValues : ChangeCarbsFilter(v)
    \/ \E v \in CaloriesFilterValues : ChangeCaloriesFilter(v)
    \/ \E v \in categoryOptions : ChangeCategoryFilter(v)
    \/ \E v \in SortOptions : ChangeSortBy(v)
    \/ \E v \in SearchTerms : SearchInput(v)
    \/ \E v \in BudgetInputs : UpdateMaxDailyCarbs(v)
    \/ \E i \in DOMAIN cards : ClickAdd(i)
    \/ \E i \in DOMAIN cards : ClickRemove(i)
    \/ \E i \in DOMAIN cards, q \in QuantityInputs : ChangeQuantity(i, q)
    \/ ResetShoppingList

Spec == Init /\ [][Next]_vars

-----------------------------------------------------------------------------
(* The shopping list at work: a load, the sort control, and the handlers   *)
(* of the cards and of the reset button.                                   *)

ListSortOptions == {"alphabetical", "carbs-high-low"}

ListQuantityInputs == {<<"1", "5", "0">>, <<"-", "5", "0">>}

NextList ==
    \/ \E dataset \in Datasets : LoadSuccess(dataset)
    \/ \E v \in ListSortOptions : ChangeSortBy(v)
    \/ \E i \in DOMAIN cards : ClickAdd(i)
    \/ \E i \in DOMAIN cards : ClickRemove(i)
    \/ \E i \in DOMAIN cards, q \in ListQuantityInputs : ChangeQuantity(i, q)
    \/ ResetShoppingList

SpecList == Init /\ [][NextList]_vars

-----------------------------------------------------------------------------
(* The view at work: the load and its failure, the filter controls, the    *)
(* sort control, the search box and the budget.                            *)

ViewCarbsFilterValues == {"", "very-low", "low"}

ViewCaloriesFilterValues == {"", "medium"}

ViewSortOptions == {"alphabetical", "carbs-high-low"}

ViewSearchTerms == {<<>>, <<"h", "a">>, <<"h", "a", "m">>}

ViewBudgetInputs == {<<>>, <<"8">>, <<"1", "0">>, <<"x">>}

NextView ==
    \/ \E dataset \in Datasets : LoadSuccess(dataset)
    \/ LoadFailure
    \/ \E v \in foodNameOptions : ChangeFoodName(v)
    \/ \E v \in ViewCarbsFilterValues : ChangeCarbsFilter(v)
    \/ \E v \in ViewCaloriesFilterValues : ChangeCaloriesFilter(v)
    \/ \E v \in categoryOptions : ChangeCategoryFilter(v)
    \/ \E v \in ViewSortOptions : ChangeSortBy(v)
    \/ \E v \in ViewSearchTerms : SearchInput(v)
    \/ \E v \in ViewBudgetInputs : UpdateMaxDailyCarbs(v)

SpecView == Init /\ [][NextView]_vars

-----------------------------------------------------------------------------
(* The filter controls alone, with every value they offer.                 *)

NextFilter ==
    \/ \E dataset \in Datasets : LoadSuccess(dataset)
    \/ \E v \in foodNameOptions : ChangeFoodName(v)
    \/ \E v \in CarbsFilterValues : ChangeCarbsFilter(v)
    \/ \E v \in CaloriesFilterValues : ChangeCaloriesFilter(v)
    \/ \E v \in categoryOptions : ChangeCategoryFilter(v)
    \/ \E v \in SearchTerms : SearchInput(v)

SpecFilter == Init /\ [][NextFilter]_vars

-----------------------------------------------------------------------------
(* The classifier alone: one food, of any of these carbs, and the budget.  *)

\* Carbs in tenths of a gram around the budgets 0, 8, 10 and 12.
ColorCarbs ==
    {0, 1, 66, 67, 79, 80, 81, 83, 84, 96, 97, 99, 100, 101, 119, 120, 121, 125}

ColorPool == {[HamA EXCEPT !.carbs = c] : c \in ColorCarbs}

NextColor ==
    \/ \E food \in ColorPool : LoadSuccess(<<food>>)
    \/ \E v \in BudgetInputs : UpdateMaxDailyCarbs(v)

SpecColor == Init /\ [][NextColor]_vars

-----------------------------------------------------------------------------
(* The structured ingestion mode (src/unnamed/part_000): loadFoodData      *)
(* fetches data/foods.json and takes the parsed array as allFoods.         *)

Water == [name |-> <<"W", "a", "t", "e", "r">>, category |-> "drink",
          protein |-> 0, fat |-> 0, carbs |-> 0, calories |-> 0,
          cholesterol |-> 0]

\* A record of foods.json that has no category member.
Uncategorised == [name |-> Yam, protein |-> 15, fat |-> 10, carbs |-> 80,
                  calories |-> 118, cholesterol |-> 0]

StructuredPool == {HamA, YamC, Water, Uncategorised}

\* What response.json() can deliver: any array of records of the pool.
StructuredDatasets == SeqsUpTo(StructuredPool, MaxFoods)

\* food.category is a string; without the member it is undefined, and
\* category.charAt(0) raises a TypeError.
HasCategory(food) == "category" \in DOMAIN food

\* displayFoods of part_000: a card shows the food and has no controls.
DisplayFoodsStructured(foods) ==
    [i \in DOMAIN foods |-> [food |-> foods[i], color |-> NoColor]]

\* The .then(data => ...) handler, and the .catch handler behind it.
\* allFoods = data comes first.  populateDropdowns sorts the categories
\* (Array.prototype.sort puts undefined last), appends an option for each
\* and raises at the first undefined one, before any food name option is
\* appended and before displayFoods; the .catch handler then shows the
\* error.
LoadStructured(data) ==
    LET categorised == {i \in DOMAIN data : HasCategory(data[i])}
    IN  /\ loadState = "pending"
        /\ allFoods' = data
        /\ categoryOptions' = categoryOptions \cup {data[i].category : i \in categorised}
        /\ IF categorised = DOMAIN data
           THEN /\ loadState' = "loaded"
                /\ foodNameOptions' =
                       foodNameOptions \cup {data[i].name : i \in DOMAIN data}
                /\ results' = ResultsOf(data)
                /\ cards' = ColorFoodCardsBasedOnKeto(DisplayFoodsStructured(data),
                                                      data, maxDailyCarbs)
           ELSE /\ loadState' = "failed"
                /\ results' = "error"
                /\ cards' = <<>>
                /\ UNCHANGED foodNameOptions
        /\ UNCHANGED <<parserCall,
                       maxDailyCarbs, currentSortOption, shoppingList, foodName,
                       carbsFilter, caloriesFilter, categoryFilter, searchInput,
                       maxCarbsInput, shoppingListView, totals>>

NextStructured ==
    \/ \E data \in StructuredDatasets : LoadStructured(data)
    \/ LoadFailure
    \/ \E v \in BudgetInputs : UpdateMaxDailyCarbs(v)

SpecStructured == Init /\ [][NextStructured]_vars

-----------------------------------------------------------------------------
(* parseCSVLine alone, called on every line of the bounded set.            *)

\* The longest line parseCSVLine is called on.
MaxLineLen == 5

\* A letter, the comma and the double quote.
LineChars == {"a", ",", DQ}

CsvLines == SeqsUpTo(LineChars, MaxLineLen)

CallParseCSVLine(line) ==
    /\ parserCall' = [fn |-> "parseCSVLine", arg |-> line,
                      result |-> ParseCSVLine(line)]
    /\ UNCHANGED <<allFoods, maxDailyCarbs, currentSortOption, shoppingList,
                   loadState, foodNameOptions, categoryOptions, foodName,
                   carbsFilter, caloriesFilter, categoryFilter, searchInput,
                   maxCarbsInput, results, cards, shoppingListView, totals>>

NextCsvLine == \E line \in CsvLines : CallParseCSVLine(line)

SpecCsvLine == Init /\ [][NextCsvLine]_vars

-----------------------------------------------------------------------------
(* parseCSVToFoods alone, called on the text of the response.              *)

\* The strings of parts, with sep between them.
RECURSIVE Join(_, _)
Join(parts, sep) ==
    IF parts = <<>> THEN <<>>
    ELSE IF Len(parts) = 1 THEN parts[1]
    ELSE parts[1] \o sep \o Join(Tail(parts), sep)

Meat == <<"m", "e", "a", "t">>

Veg == <<"v", "e", "g">>

\* Ham,20,0.5,10,200,x,x,Tr,meat
HamRow ==
    Join(<<Ham, <<"2", "0">>, <<"0", ".", "5">>, <<"1", "0">>,
           <<"2", "0", "0">>, <<"x">>, <<"x">>, <<"T", "r">>, Meat>>, <<",">>)

\* "Yam,r",1.5,1,8,118,x,x,0,veg
YamRow ==
    Join(<<<<DQ, "Y", "a", "m", ",", "r", DQ>>, <<"1", ".", "5">>, <<"1">>,
           <<"8">>, <<"1", "1", "8">>, <<"x">>, <<"x">>, <<"0">>, Veg>>, <<",">>)

\* Ham,20,0.5,10,200,x,x,Tr: eight fields.
EightRow ==
    Join(<<Ham, <<"2", "0">>, <<"0", ".", "5">>, <<"1", "0">>,
           <<"2", "0", "0">>, <<"x">>, <<"x">>, <<"T", "r">>>>, <<",">>)

\* A line of white space.
BlankRow == <<" ">>

\* Water,0,0,0,0,x,x,0,veg
ZeroRow ==
    Join(<<<<"W", "a", "t", "e", "r">>, <<"0">>, <<"0">>, <<"0">>, <<"0">>,
           <<"x">>, <<"x">>, <<"0">>, Veg>>, <<",">>)

RowPool == {HamRow, YamRow, EightRow, BlankRow, ZeroRow}

\* The most lines a text has after its first three.
MaxRows == 3

\* The first three lines: titles, or three rows of data.
Headers == {<<<<"h">>, <<"h">>, <<"h">>>>, <<HamRow, YamRow, HamRow>>}

\* Line ends: LF, CR LF, and a CR alone.
LineEnds == {<<LF>>, <<CR, LF>>, <<CR>>}

\* Texts of three first lines and up to MaxRows more, in one line-end
\* convention, and texts of fewer than three lines.
RowTexts ==
    {Join(head \o rows, end) :
        head \in Headers, rows \in SeqsUpTo(RowPool, MaxRows), end \in LineEnds}
    \cup {<<>>, HamRow, Join(<<HamRow, YamRow>>, <<LF>>)}

\* Tokens of a numeric field: the sentinels, bare and quoted, the empty
\* token, a word, numbers, a number followed by a letter, a negative number.
TokenPool ==
    {<<"T", "r">>, <<"N">>, <<DQ, "T", "r", DQ>>, <<>>, <<"x">>, <<"7">>,
     <<"0", ".", "3">>, <<"1", "2", ".", "7">>, <<"5", "g">>, <<"-", "5">>}

\* The fields of Ham,1,2,3,4,5,6,7,meat.
BaseFields ==
    <<Ham, <<"1">>, <<"2">>, <<"3">>, <<"4">>, <<"5">>, <<"6">>, <<"7">>, Meat>>

\* The fields of the row that parseCSVToFoods reads as numbers, counted
\* from 0 as the code counts them.
NumericFields == {1, 2, 3, 4, 7}

\* Three title lines and the base row with token in field pos.
TokenText(pos, token) ==
    Join(<<<<"h">>, <<"h">>, <<"h">>,
           Join([BaseFields EXCEPT ![pos + 1] = token], <<",">>)>>, <<LF>>)

TokenTexts == {TokenText(pos, token) : pos \in NumericFields, token \in TokenPool}

\* loadFoodData calls parseCSVToFoods once, on the text of the response.
CallParseCSVToFoods(csvText) ==
    /\ parserCall = NoCall
    /\ parserCall' = [fn |-> "parseCSVToFoods", arg |-> csvText,
                      result |-> ParseCSVToFoods(csvText)]
    /\ UNCHANGED <<allFoods, maxDailyCarbs, currentSortOption, shoppingList,
                   loadState, foodNameOptions, categoryOptions, foodName,
                   carbsFilter, caloriesFilter, categoryFilter, searchInput,
                   maxCarbsInput, results, cards, shoppingListView, totals>>

NextCsvText ==
    \/ \E csvText \in RowTexts : CallParseCSVToFoods(csvText)
    \/ \E csvText \in TokenTexts : CallParseCSVToFoods(csvText)

SpecCsvText == Init /\ [][NextCsvText]_vars

-----------------------------------------------------------------------------
(* The bands alone: one food, of any of these carbs and calories, and the  *)
(* two band controls.                                                      *)

\* Carbs in tenths of a gram at and beside the edges 10, 20, 30, 40, 50 g.
BandCarbs == {0, 99, 100, 199, 200, 299, 300, 399, 400, 499, 500, 501}

\* Calories at and beside the edges 200 and 500 kcal.
BandCalories == {0, 199, 200, 500, 501}

BandPool ==
    {[HamA EXCEPT !.carbs = c, !.calories = k] : c \in BandCarbs, k \in BandCalories}

NextBands ==
    \/ \E food \in BandPool : LoadSuccess(<<food>>)
    \/ \E v \in CarbsFilterValues : ChangeCarbsFilter(v)
    \/ \E v \in CaloriesFilterValues : ChangeCaloriesFilter(v)

SpecBands == Init /\ [][NextBands]_vars

-----------------------------------------------------------------------------
(* The sort alone: a load and the sort control, with foods that tie on     *)
(* every key and a control value sortFoods has no case for.                *)

\* A food with the carbs, calories and fat of HamA under another name.
YamD == [name |-> Yam, category |-> "veg", protein |-> 15, fat |-> 5,
         carbs |-> 100, calories |-> 200, cholesterol |-> 0]

SortPool == FoodPool \cup {YamD}

\* The sort options and a value that reaches the default case of the switch.
SortValues == SortOptions \cup {"unsorted"}

NextSort ==
    \/ \E dataset \in SeqsUpTo(SortPool, MaxFoods) : LoadSuccess(dataset)
    \/ \E v \in SortValues : ChangeSortBy(v)

SpecSort == Init /\ [][NextSort]_vars

-----------------------------------------------------------------------------
(* The shopping list beside the view: one dataset, the handlers of the     *)
(* cards, and the filter, sort, search and budget controls.                *)

FrameDataset == <<HamA, YamC>>

FrameQuantityInputs == {<<"1", "5", "0">>}

FrameBudgetInputs == {<<>>, <<"8">>}

FrameSearchTerms == {<<>>, <<"h", "a", "m">>}

NextFrame ==
    \/ LoadSuccess(FrameDataset)
    \/ \E v \in foodNameOptions : ChangeFoodName(v)
    \/ \E v \in ViewCarbsFilterValues : ChangeCarbsFilter(v)
    \/ \E v \in ViewCaloriesFilterValues : ChangeCaloriesFilter(v)
    \/ \E v \in categoryOptions : ChangeCategoryFilter(v)
    \/ \E v \in ViewSortOptions : ChangeSortBy(v)
    \/ \E v \in FrameSearchTerms : SearchInput(v)
    \/ \E v \in FrameBudgetInputs : UpdateMaxDailyCarbs(v)
    \/ \E i \in DOMAIN cards : ClickAdd(i)
    \/ \E i \in DOMAIN cards : ClickRemove(i)
    \/ \E i \in DOMAIN cards, q \in FrameQuantityInputs : ChangeQuantity(i, q)

SpecFrame == Init /\ [][NextFrame]_vars

-----------------------------------------------------------------------------
(* Properties of the shopping list.                                        *)

\* C1: every key of shoppingList has an integer count of at least 1; no
\* entry is stored with a count of 0 or less.
C1_CountsArePositive ==
    \A n \in DOMAIN shoppingList :
        shoppingList[n].count \in Nat /\ shoppingList[n].count >= 1

\* C1, witness: after adds and a removal the list holds one entry at count 1
\* beside a rendered food that has no entry.
C1_Witness ==
    /\ totals # <<>>
    /\ \E n \in DOMAIN shoppingList : shoppingList[n].count = 1
    /\ \E i \in DOMAIN cards :
          cards[i].food.name \notin DOMAIN shoppingList /\ ~cards[i].enabled

\* C2: a click on + with the quantity giving the multiplier m raises the
\* count of an existing entry by exactly 1 and sets its multiplier to m, and
\* creates {count: 1, multiplier: m} when there was no entry.
C2_AddIncrementsOrCreates ==
    [][\A i \in DOMAIN cards :
          ClickAdd(i) =>
              LET name == cards[i].food.name
                  m == MultiplierOf(cards[i].quantity)
              IN  /\ name \in DOMAIN shoppingList'
                  /\ shoppingList'[name].multiplier = m
                  /\ shoppingList'[name].count =
                        IF name \in DOMAIN shoppingList
                        THEN shoppingList[name].count + 1
                        ELSE 1]_vars

\* C2, witness: an entry added twice, the second time with another quantity.
C2_Witness ==
    \E n \in DOMAIN shoppingList :
        shoppingList[n].count = 2 /\ shoppingList[n].multiplier = 150

\* C3: a click on - lowers a count above 1 by exactly 1 and keeps the stored
\* multiplier whatever the card's quantity is, deletes an entry of count 1,
\* and leaves the mapping as it is when the food has no entry.
C3_RemoveDecrementsOrDeletes ==
    [][\A i \in DOMAIN cards :
          ClickRemove(i) =>
              LET name == cards[i].food.name
              IN  IF name \notin DOMAIN shoppingList
                  THEN shoppingList' = shoppingList
                  ELSE IF shoppingList[name].count > 1
                  THEN /\ name \in DOMAIN shoppingList'
                       /\ shoppingList'[name].count = shoppingList[name].count - 1
                       /\ shoppingList'[name].multiplier = shoppingList[name].multiplier
                  ELSE name \notin DOMAIN shoppingList']_vars

\* C3, witness: an entry of count 1, left by a removal from count 2 made
\* through a card whose quantity gives another multiplier than the stored one.
C3_Witness ==
    \E i \in DOMAIN cards :
        LET name == cards[i].food.name
        IN  /\ name \in DOMAIN shoppingList
            /\ shoppingList[name].count = 1
            /\ shoppingList[name].multiplier = 150
            /\ MultiplierOf(cards[i].quantity) = -50
            /\ cards[i].enabled

\* C10: a change of a card's quantity to q overwrites the multiplier of the
\* entry of that food's name, keeps its count and every other entry, and
\* leaves the mapping as it is when that name has no entry.
C10_QuantityChangeSetsMultiplierOnly ==
    [][\A i \in DOMAIN cards : \A q \in ListQuantityInputs :
          ChangeQuantity(i, q) =>
              LET name == cards[i].food.name
              IN  /\ DOMAIN shoppingList' = DOMAIN shoppingList
                  /\ \A n \in DOMAIN shoppingList :
                        /\ shoppingList'[n].count = shoppingList[n].count
                        /\ shoppingList'[n].multiplier =
                              IF n = name THEN MultiplierOf(q)
                              ELSE shoppingList[n].multiplier]_vars

\* C10, witness: one card's entry has count 2 and the multiplier of the
\* quantity its input now holds, and another card, its quantity edited too,
\* has no entry.
C10_Witness ==
    \E i, j \in DOMAIN cards :
        /\ cards[i].food.name \in DOMAIN shoppingList
        /\ shoppingList[cards[i].food.name] = [count |-> 2, multiplier |-> -50]
        /\ cards[i].quantity = <<"-", "5", "0">>
        /\ cards[j].food.name \notin DOMAIN shoppingList
        /\ cards[j].quantity = <<"1", "5", "0">>

-----------------------------------------------------------------------------
(* Properties of the totals.                                               *)

\* The first food of allFoods with the name n, the one a lookup by name
\* finds; no food when allFoods has none of that name.
FoodNamed(n) ==
    {allFoods[i] : i \in {i \in DOMAIN allFoods :
                            /\ allFoods[i].name = n
                            /\ \A j \in 1..(i - 1) : allFoods[j].name # n}}

\* The contribution of the entry of n to the total of a field, unrounded, in
\* units of field * hundredths.
Contribution(n, field) ==
    IF FoodNamed(n) = {} THEN 0
    ELSE LET food == CHOOSE f \in FoodNamed(n) : TRUE
         IN  food[field] * shoppingList[n].multiplier * shoppingList[n].count

RECURSIVE ContributionSum(_, _)
ContributionSum(names, field) ==
    IF names = {} THEN 0
    ELSE LET n == CHOOSE m \in names : TRUE
         IN  Contribution(n, field) + ContributionSum(names \ {n}, field)

\* r is num / den rounded to the nearest integer, a half going up.
IsRounded(r, num, den) == 2 * den * r - den <= 2 * num /\ 2 * num < 2 * den * r + den

\* C4: once the list has been mutated, the totals shown are, in every state,
\* the rounded sums over the entries of field * multiplier * count, the field
\* taken from the food of allFoods with the entry's name, an entry with no
\* such food adding zero.
C4_TotalsMatchList ==
    (shoppingList # EmptyList \/ totals # <<>>) =>
        /\ totals # <<>>
        /\ IsRounded(totals[1].carbs,
                     ContributionSum(DOMAIN shoppingList, "carbs"), 1000)
        /\ IsRounded(totals[1].calories,
                     ContributionSum(DOMAIN shoppingList, "calories"), 100)
        /\ IsRounded(totals[1].fat,
                     ContributionSum(DOMAIN shoppingList, "fat"), 1000)

-----------------------------------------------------------------------------
(* Properties of the food collection and of the colouring.                 *)

\* C5: once loaded, allFoods is the same sequence after every step: the
\* filter/sort pipeline changes neither its elements nor their order.
C5_AllFoodsNeverChanges ==
    [][loadState = "loaded" => allFoods' = allFoods]_vars

\* C6: every displayed card carries the colour getCardColor gives for the
\* food the card renders under the current budget, and none when the budget
\* is unset.
C6_CardsCarryTheirFoodsColor ==
    \A i \in DOMAIN cards :
        cards[i].color = GetCardColor(cards[i].food, maxDailyCarbs)

\* C7: with the budget unset a card has no colour; with the budget B and the
\* food's carbs C it is red iff B < C, orange iff B >= C and B < 1.2 * C,
\* green otherwise.  C is in tenths: B < C is 10 * B < C, and B < 1.2 * C is
\* 50 * B < 6 * C.
C7_ColorFollowsThresholds ==
    \A i \in DOMAIN cards :
        LET C == cards[i].food.carbs
            color == cards[i].color
        IN  IF maxDailyCarbs = Null THEN color = NoColor
            ELSE LET B == ValueOf(maxDailyCarbs)
                 IN  /\ color \in {"red", "orange", "green"}
                     /\ color = "red" <=> 10 * B < C
                     /\ color = "orange" <=> (10 * B >= C /\ 50 * B < 6 * C)
                     /\ (B = 0 /\ C = 0) => color = "green"
                     /\ (B = 10 /\ C = Grams(10)) => color # "red"

\* C7, witness: the budget 10 against a food of 10.0 g of carbs, coloured
\* orange.
C7_Witness ==
    /\ maxDailyCarbs = Num(10)
    /\ \E i \in DOMAIN cards :
          cards[i].food.carbs = Grams(10) /\ cards[i].color = "orange"

-----------------------------------------------------------------------------
(* Properties of the filter pipeline.                                      *)

\* A step in which filterFoods runs: a change of a filter control, or an
\* input event of the search box that leaves three or more characters, or
\* none.
FilterFoodsRuns ==
    \/ \E v \in foodNameOptions : ChangeFoodName(v)
    \/ \E v \in CarbsFilterValues : ChangeCarbsFilter(v)
    \/ \E v \in CaloriesFilterValues : ChangeCaloriesFilter(v)
    \/ \E v \in categoryOptions : ChangeCategoryFilter(v)
    \/ \E v \in SearchTerms : (Len(v) >= 3 \/ Len(v) = 0) /\ SearchInput(v)

\* The foods of the displayed cards, in order.
ShownFoods == [i \in DOMAIN cards |-> cards[i].food]

\* name contains term, letters compared whatever their case.
ContainsIgnoringCase(name, term) ==
    \E k \in 0..(Len(name) - Len(term)) :
        \A j \in 1..Len(term) : LowerChar(name[k + j]) = LowerChar(term[j])

\* C8: when filterFoods has run, a search term of trimmed length 0, 1 or 2
\* leaves what the other controls alone select, and a term of trimmed
\* length 3 or more keeps of it exactly the foods whose name contains the
\* term, case ignored.
C8_ShortSearchNeverNarrows ==
    [][FilterFoodsRuns =>
          LET term == Trim(searchInput')
              Matches(food) == ContainsIgnoringCase(food.name, term)
              without == SortFoods(
                             FilteredFoods(allFoods,
                                 Criteria(foodName', carbsFilter', caloriesFilter',
                                          categoryFilter', <<>>)),
                             currentSortOption')
          IN  ShownFoods' = IF Len(term) <= 2 THEN without
                            ELSE SelectSeq(without, Matches)]_vars

\* C8, witness: the search box holds YAM and the one card shown is Yam's, of
\* the two foods loaded.
C8_Witness ==
    /\ searchInput = <<"Y", "A", "M">>
    /\ Len(allFoods) = 2
    /\ Len(cards) = 1
    /\ cards[1].food.name = Yam

\* C9: when filterFoods has run, the set of foods shown is the intersection
\* of the sets each control alone selects from allFoods, a control holding
\* nothing selecting every food; the steps taken in the opposite order give
\* the same set.
C9_FilterIsIntersection ==
    [][FilterFoodsRuns =>
          LET all == Range(allFoods)
              term == Trim(searchInput')
              byName == {f \in all : foodName' = <<>> \/ f.name = foodName'}
              byCarbs == {f \in all : carbsFilter' = "" \/ CarbsBand(f, carbsFilter')}
              byCalories ==
                  {f \in all : caloriesFilter' = "" \/ CaloriesBand(f, caloriesFilter')}
              byCategory ==
                  {f \in all : categoryFilter' = "" \/ f.category = categoryFilter'}
              bySearch ==
                  {f \in all : Len(term) < 3 \/ ContainsIgnoringCase(f.name, term)}
              opposite ==
                  FilterByName(
                      FilterByCarbs(
                          FilterByCalories(
                              FilterByCategory(
                                  FilterBySearch(allFoods, term),
                                  categoryFilter'),
                              caloriesFilter'),
                          carbsFilter'),
                      foodName')
          IN  /\ Range(ShownFoods') =
                    byName \cap byCarbs \cap byCalories \cap byCategory \cap bySearch
              /\ Range(opposite) = Range(ShownFoods')]_vars

\* C9, witness: two controls are active, each alone selects a food, and
\* together they select none of the two foods loaded.
C9_Witness ==
    /\ carbsFilter = "very-low"
    /\ caloriesFilter = "medium"
    /\ Len(allFoods) = 2
    /\ \E i \in DOMAIN allFoods : CarbsBand(allFoods[i], "very-low")
    /\ \E i \in DOMAIN allFoods : CaloriesBand(allFoods[i], "medium")
    /\ results = "no-results"

-----------------------------------------------------------------------------
(* Properties of the reset and of an add undone by a remove.               *)

ZeroTotals == <<[carbs |-> 0, calories |-> 0, fat |-> 0]>>

\* C11: resetShoppingList, from any reachable state, leaves shoppingList
\* empty and the displayed totals of carbs, calories and fat all zero.
C11_ResetEmptiesListAndTotals ==
    [][ResetShoppingList =>
          /\ DOMAIN shoppingList' = {}
          /\ totals' = ZeroTotals]_vars

\* C11, witness: the list is empty and the totals read zero while a card
\* still carries a quantity that was typed for an entry, and every remove
\* button is disabled again.
C11_Witness ==
    /\ DOMAIN shoppingList = {}
    /\ totals = ZeroTotals
    /\ shoppingListView.empty
    /\ Len(cards) = 2
    /\ \A i \in DOMAIN cards :
           cards[i].quantity # DefaultQuantity /\ ~cards[i].enabled

\* C12: when shoppingList has no entry for a food's name, addToShoppingList
\* for that food followed at once by removeFromShoppingList for it leaves
\* the mapping as it was before the add, whatever the multiplier.
C12_AddThenRemoveRestores ==
    \A i \in DOMAIN cards : \A q \in QuantityInputs \cup {cards[i].quantity} :
        LET name == cards[i].food.name
            added == AddEntry(shoppingList, name, MultiplierOf(q))
        IN  name \notin DOMAIN shoppingList =>
                /\ name \in DOMAIN added
                /\ RemoveEntry(added, name) = shoppingList

\* C12, witness: a rendered food has no entry while the list holds an
\* entry of another food, of count 2 and multiplier 1.5.
C12_Witness ==
    \E i, j \in DOMAIN cards :
        /\ cards[i].food.name \notin DOMAIN shoppingList
        /\ cards[j].food.name \in DOMAIN shoppingList
        /\ shoppingList[cards[j].food.name] = [count |-> 2, multiplier |-> 150]

-----------------------------------------------------------------------------
(* Properties of the budget input.                                         *)

\* A decimal numeral: one digit or more and nothing else.
IsNumeral(s) == s # <<>> /\ \A i \in DOMAIN s : IsDigit(s[i])

\* C13: updateMaxDailyCarbs rejects an input that is not a number or is
\* negative and keeps the previous maxDailyCarbs; only an empty input
\* unsets the budget and only a valid non-negative number replaces it.
C13_BudgetInputIsValidated ==
    [][\A v \in BudgetInputs :
          UpdateMaxDailyCarbs(v) =>
              IF Trim(v) = <<>> THEN maxDailyCarbs' = Null
              ELSE IF IsNumeral(Trim(v))
                   THEN maxDailyCarbs' = Num(DigitsValue(Trim(v)))
                   ELSE maxDailyCarbs' = maxDailyCarbs]_vars

-----------------------------------------------------------------------------
(* Properties of the load.                                                 *)

\* C14: when the load ends in failure (the fetch is rejected, the response
\* is not OK, its body cannot be read, or an error is raised anywhere in
\* the load chain) the error state is shown and allFoods is empty: no
\* partial or complete dataset is held while the error is displayed.
C14_FailedLoadHoldsNoFoods ==
    /\ loadState = "failed" => allFoods = <<>>
    /\ results = "error" => allFoods = <<>>

\* C15: in both ingestion modes every Food of allFoods after the load has
\* at least one of protein, fat, carbs and calories strictly positive;
\* records whose four values are all zero are dropped.
C15_LoadedFoodsHaveAPositiveValue ==
    loadState = "loaded" =>
        \A i \in DOMAIN allFoods :
            \/ allFoods[i].protein > 0
            \/ allFoods[i].fat > 0
            \/ allFoods[i].carbs > 0
            \/ allFoods[i].calories > 0

-----------------------------------------------------------------------------
(* Properties of parseCSVLine.                                             *)

\* The character at p is inside a quoted span when an odd number of double
\* quotes stands before it.
InQuotedSpan(line, p) ==
    Cardinality({i \in 1..(p - 1) : line[i] = DQ}) % 2 = 1

\* The commas outside quoted spans.
Separators(line) ==
    {p \in DOMAIN line : line[p] = "," /\ ~InQuotedSpan(line, p)}

\* The k-th separator, counted from 1.
Separator(line, k) ==
    CHOOSE p \in Separators(line) :
        Cardinality({q \in Separators(line) : q < p}) = k - 1

\* The text of the k-th field: what stands between the separators.
Segment(line, k) ==
    LET first == IF k = 1 THEN 1 ELSE Separator(line, k - 1) + 1
        last == IF k = Cardinality(Separators(line)) + 1 THEN Len(line)
                ELSE Separator(line, k) - 1
    IN  SubSeq(line, first, last)

\* The length of the run of double quotes s starts with.
RECURSIVE QuoteRun(_)
QuoteRun(s) == IF s # <<>> /\ Head(s) = DQ THEN 1 + QuoteRun(Tail(s)) ELSE 0

\* The doubled double quotes of s that stand inside a quoted span, run by
\* run: of a run of r quotes met inside a span every pair is a doubled
\* quote; of a run met outside the first quote opens the span.
RECURSIVE DoubledQuotes(_, _)
DoubledQuotes(s, inside) ==
    IF s = <<>> THEN 0
    ELSE LET r == QuoteRun(s)
         IN  IF r = 0 THEN DoubledQuotes(Tail(s), inside)
             ELSE (IF inside THEN r \div 2 ELSE (r - 1) \div 2)
                  + DoubledQuotes(SubSeq(s, r + 1, Len(s)),
                                  IF r % 2 = 1 THEN ~inside ELSE inside)

\* C18: parseCSVLine splits a line only at commas outside a double-quoted
\* span, so the number of fields is 1 plus the number of those commas; a
\* comma inside a quoted span stays in its field; a doubled double quote
\* inside a quoted span yields one literal double quote and does not end
\* the span.
C18_SplitsAtUnquotedCommas ==
    parserCall.fn = "parseCSVLine" =>
        LET line == parserCall.arg
            fields == parserCall.result
        IN  /\ Len(fields) = 1 + Cardinality(Separators(line))
            /\ \A k \in DOMAIN fields :
                  /\ StripQuotes(fields[k]) = StripQuotes(Segment(line, k))
                  /\ Len(fields[k]) - Len(StripQuotes(fields[k]))
                        = DoubledQuotes(Segment(line, k), FALSE)

\* C18, witness: a call on a line with a comma outside the quoted spans, a
\* comma inside one, and a doubled double quote inside one: two fields, the
\* second holding the literal quote and the comma.
C18_Witness ==
    /\ parserCall.fn = "parseCSVLine"
    /\ Separators(parserCall.arg) # {}
    /\ \E p \in DOMAIN parserCall.arg :
          parserCall.arg[p] = "," /\ InQuotedSpan(parserCall.arg, p)
    /\ \E k \in DOMAIN parserCall.result :
          /\ DQ \in Range(parserCall.result[k])
          /\ "," \in Range(parserCall.result[k])

-----------------------------------------------------------------------------
(* Properties of parseCSVToFoods.                                          *)

\* The positions at which a line of text ends: every LF and, when a CR alone
\* counts as a line end too, every CR that no LF follows.
LineBreaks(text, loneCR) ==
    {p \in DOMAIN text :
        \/ text[p] = LF
        \/ loneCR /\ text[p] = CR /\ ~(p < Len(text) /\ text[p + 1] = LF)}

\* The k-th break, counted from 1.
Break(breaks, k) ==
    CHOOSE p \in breaks : Cardinality({q \in breaks : q < p}) = k - 1

\* The k-th line of text: what stands between two breaks, less the CR of a
\* CR LF line end.
LineOf(text, breaks, k) ==
    LET first == IF k = 1 THEN 1 ELSE Break(breaks, k - 1) + 1
        end == IF k = Cardinality(breaks) + 1 THEN Len(text) + 1
               ELSE Break(breaks, k)
        raw == SubSeq(text, first, end - 1)
    IN  IF end <= Len(text) /\ text[end] = LF
           /\ raw # <<>> /\ raw[Len(raw)] = CR
        THEN SubSeq(raw, 1, Len(raw) - 1)
        ELSE raw

\* The records the rows of the pool stand for.
HamRecord == [name |-> Ham, protein |-> 200, fat |-> 5, carbs |-> 100,
              calories |-> 200, category |-> Meat, cholesterol |-> 1]

YamRecord == [name |-> <<"Y", "a", "m", ",", "r">>, protein |-> 15,
              fat |-> 10, carbs |-> 80, calories |-> 118, category |-> Veg,
              cholesterol |-> 0]

\* What a line of a text of rows is to yield: the record of an accepted
\* row, and nothing for a line of fewer than 9 fields, a blank line, a row
\* of zeros, or anything else.
RecordsOfLine(line) ==
    IF Trim(line) = HamRow THEN <<HamRecord>>
    ELSE IF Trim(line) = YamRow THEN <<YamRecord>>
    ELSE <<>>

\* The records of the lines from the k-th on, in the order of the lines.
RECURSIVE RecordsFrom(_, _, _)
RecordsFrom(text, breaks, k) ==
    IF k > Cardinality(breaks) + 1 THEN <<>>
    ELSE RecordsOfLine(LineOf(text, breaks, k)) \o RecordsFrom(text, breaks, k + 1)

\* C16, as claimed: parseCSVToFoods splits the text into lines on any
\* line-ending convention (LF, CR LF, or CR alone), makes no record of the
\* first three lines, none and no error of a later line of fewer than 9
\* fields, and returns the accepted records in the order of their lines.
C16_SplitsOnAnyLineEnd ==
    parserCall.fn = "parseCSVToFoods" /\ parserCall.arg \in RowTexts =>
        parserCall.result
            = RecordsFrom(parserCall.arg, LineBreaks(parserCall.arg, TRUE), 4)

\* C16, amended: parseCSVToFoods splits the text into lines at LF and at
\* CR LF (a CR alone ends no line), makes no record of the first three
\* lines, none and no error of a later line of fewer than 9 fields, and
\* returns the accepted records in the order of their lines.
C16_SplitsAtLFSkipsThreeKeepsOrder ==
    parserCall.fn = "parseCSVToFoods" /\ parserCall.arg \in RowTexts =>
        parserCall.result
            = RecordsFrom(parserCall.arg, LineBreaks(parserCall.arg, FALSE), 4)

\* C16, witness: a text in CR LF whose first three lines are rows of data
\* and whose next lines are an accepted row, a row of eight fields and
\* another accepted row; two records come back, in that order.
C16_Witness ==
    /\ parserCall.fn = "parseCSVToFoods"
    /\ parserCall.arg = Join(<<HamRow, YamRow, HamRow, YamRow, EightRow, HamRow>>,
                             <<CR, LF>>)
    /\ parserCall.result = <<YamRecord, HamRecord>>

\* The record of the base row Ham,1,2,3,4,5,6,7,meat, calories in tenths
\* like the other values.
BaseRecord == [name |-> Ham, protein |-> 10, fat |-> 20, carbs |-> 30,
               calories |-> 40, category |-> Meat, cholesterol |-> 70]

\* A food with its calories in tenths.
InTenths(food) == [food EXCEPT !.calories = 10 * @]

\* The base record with value, in tenths, in the member that the field at
\* pos fills: 1 protein, 2 fat, 3 carbs, 4 calories, 7 cholesterol.
RecordWith(pos, value) ==
    [BaseRecord EXCEPT !.protein = IF pos = 1 THEN value ELSE @,
                       !.fat = IF pos = 2 THEN value ELSE @,
                       !.carbs = IF pos = 3 THEN value ELSE @,
                       !.calories = IF pos = 4 THEN value ELSE @,
                       !.cholesterol = IF pos = 7 THEN value ELSE @]

Sentinels == {<<"T", "r">>, <<"N">>, <<DQ, "T", "r", DQ>>}

\* The value, in tenths, each token of the pool is claimed to yield: 0.1
\* for a sentinel, its value for a number (its integer part in the
\* calories field), 0 for the rest.
ValueAsClaimed(pos, token) ==
    CASE token \in Sentinels -> 1
      [] token = <<"7">> -> 70
      [] token = <<"0", ".", "3">> -> IF pos = 4 THEN 0 ELSE 3
      [] token = <<"1", "2", ".", "7">> -> IF pos = 4 THEN 120 ELSE 127
      [] token = <<"-", "5">> -> 0 - 50
      [] OTHER -> 0

\* The value, in tenths, each token of the pool yields when a sentinel
\* counts in the decimal fields only and a token is read as far as it is a
\* number.
ValueOfToken(pos, token) ==
    CASE token \in Sentinels -> IF pos = 4 THEN 0 ELSE 1
      [] token = <<"7">> -> 70
      [] token = <<"0", ".", "3">> -> IF pos = 4 THEN 0 ELSE 3
      [] token = <<"1", "2", ".", "7">> -> IF pos = 4 THEN 120 ELSE 127
      [] token = <<"5", "g">> -> 50
      [] token = <<"-", "5">> -> 0 - 50
      [] OTHER -> 0

\* C17, as claimed: an accepted line gives name, protein, fat, carbs,
\* calories, cholesterol and category from the fields 0, 1, 2, 3, 4, 7 and
\* 8; in every numeric field the token Tr or N yields 0.1, any other token
\* that is not a number yields 0, and a number yields its value (an
\* integer for calories).
C17_EveryNumericFieldHasSentinel ==
    parserCall.fn = "parseCSVToFoods" =>
        \A pos \in NumericFields, token \in TokenPool :
            parserCall.arg = TokenText(pos, token) =>
                /\ Len(parserCall.result) = 1
                /\ InTenths(parserCall.result[1])
                      = RecordWith(pos, ValueAsClaimed(pos, token))

\* C17, amended: an accepted line gives name, protein, fat, carbs, calories,
\* cholesterol and category from the fields 0, 1, 2, 3, 4, 7 and 8; the
\* token Tr or N yields 0.1 in protein, fat, carbs and cholesterol and 0 in
\* calories; any other token yields the number it starts with (its integer
\* part for calories), and 0 when it starts with none.
C17_FieldsByPositionAndToken ==
    parserCall.fn = "parseCSVToFoods" =>
        \A pos \in NumericFields, token \in TokenPool :
            parserCall.arg = TokenText(pos, token) =>
                /\ Len(parserCall.result) = 1
                /\ InTenths(parserCall.result[1])
                      = RecordWith(pos, ValueOfToken(pos, token))

\* C17, witness: the line Ham,1,2,N,4,5,6,7,meat was parsed and its record
\* has carbs 0.1, the other values those of their own fields.
C17_Witness ==
    /\ parserCall.fn = "parseCSVToFoods"
    /\ parserCall.arg = TokenText(3, <<"N">>)
    /\ parserCall.result =
          <<[name |-> Ham, protein |-> 10, fat |-> 20, carbs |-> Trace,
             calories |-> 4, category |-> Meat, cholesterol |-> 70]>>

-----------------------------------------------------------------------------
(* Properties of the bands.                                                *)

CarbsBandNames ==
    <<"very-low", "low", "medium-low", "medium", "medium-high", "high">>

CaloriesBandNames == <<"low", "medium", "high">>

\* The k-th carbs band: below 10 g, then 10 g wide and closed below, open
\* above, the last one unbounded.
InCarbsRange(k, carbs) ==
    /\ k = 1 \/ carbs >= 100 * (k - 1)
    /\ k = 6 \/ carbs < 100 * k

\* The k-th calories band: below 200, 200 to 500 with both ends, above 500.
InCaloriesRange(k, calories) ==
    /\ k = 1 => calories < 200
    /\ k = 2 => calories >= 200 /\ calories <= 500
    /\ k = 3 => calories > 500

\* food is admitted by the band that control value v names, or v names none.
AdmitsCarbs(v, food) ==
    \A k \in DOMAIN CarbsBandNames :
        CarbsBandNames[k] = v => InCarbsRange(k, food.carbs)

AdmitsCalories(v, food) ==
    \A k \in DOMAIN CaloriesBandNames :
        CaloriesBandNames[k] = v => InCaloriesRange(k, food.calories)

\* C19: the carbs filter admits exactly the foods of the chosen band
\* (very-low < 10, low [10, 20), medium-low [20, 30), medium [30, 40),
\* medium-high [40, 50), high >= 50), the calories filter exactly those of
\* its band (low < 200, medium [200, 500], high > 500), and every food of
\* non-negative carbs and calories is in exactly one carbs band and exactly
\* one calories band.
C19_BandsPartitionTheFoods ==
    [][/\ (\/ \E v \in CarbsFilterValues : ChangeCarbsFilter(v)
           \/ \E v \in CaloriesFilterValues : ChangeCaloriesFilter(v))
          => LET Admitted(food) == /\ AdmitsCarbs(carbsFilter', food)
                                   /\ AdmitsCalories(caloriesFilter', food)
             IN  ShownFoods' = SelectSeq(allFoods, Admitted)
       /\ \A i \in DOMAIN allFoods' :
             LET food == allFoods'[i]
             IN  food.carbs >= 0 /\ food.calories >= 0 =>
                    /\ Cardinality({v \in Range(CarbsBandNames) :
                                       CarbsBand(food, v)}) = 1
                    /\ Cardinality({v \in Range(CaloriesBandNames) :
                                       CaloriesBand(food, v)}) = 1]_vars

\* C19, witness: a food of 10.0 g carbs and 500 kcal is shown under the
\* bands low and medium.
C19_Witness ==
    /\ carbsFilter = "low"
    /\ caloriesFilter = "medium"
    /\ Len(cards) = 1
    /\ cards[1].food.carbs = 100
    /\ cards[1].food.calories = 500

-----------------------------------------------------------------------------
(* Properties of sortFoods.                                                *)

\* a has to come before b under the sort key: never under a key that is
\* not recognized.
Precedes(a, b, key) ==
    CASE key = "alphabetical"      -> LocaleCompare(a.name, b.name) < 0
      [] key = "carbs-high-low"    -> a.carbs > b.carbs
      [] key = "carbs-low-high"    -> a.carbs < b.carbs
      [] key = "calories-high-low" -> a.calories > b.calories
      [] key = "calories-low-high" -> a.calories < b.calories
      [] key = "fat-high-low"      -> a.fat > b.fat
      [] key = "fat-low-high"      -> a.fat < b.fat
      [] OTHER                     -> FALSE

\* The ways to put n elements in another order.
Reorderings(n) ==
    {p \in [1..n -> 1..n] : \A i, j \in 1..n : p[i] = p[j] => i = j}

\* output holds the elements of input, output[i] being input[p[i]] for a
\* reordering p, in the order of the key, elements of equal key in the
\* order they have in input.
IsStableSort(input, output, key) ==
    /\ Len(output) = Len(input)
    /\ \E p \in Reorderings(Len(input)) :
          /\ \A i \in DOMAIN output : output[i] = input[p[i]]
          /\ \A i, j \in DOMAIN output :
                i < j => /\ ~Precedes(output[j], output[i], key)
                         /\ ~Precedes(output[i], output[j], key) => p[i] < p[j]

\* C20: sortFoods returns a permutation of its input; under each recognized
\* sort key the output is ordered by that key, foods of equal key in their
\* input order; under an unrecognized key the output order is the input
\* order.
C20_SortIsStablePermutation ==
    [][\A v \in SortValues :
          ChangeSortBy(v) => IsStableSort(allFoods, ShownFoods', v)]_vars

\* C20, witness: under carbs-high-low the foods of 10.0 g each are shown in
\* the order they were loaded in, Yam before Ham, behind nothing.
C20_Witness ==
    /\ currentSortOption = "carbs-high-low"
    /\ ShownFoods = <<YamD, HamA>>

-----------------------------------------------------------------------------
(* Properties of the totals after a repeated add.                          *)

\* C21: for a food shown from the collection that has no entry,
\* addToShoppingList(food, m1) followed by addToShoppingList(food, m2) makes
\* the entry's unrounded contribution to the carbs total food.carbs * m2 * 2,
\* for the food that was passed to add: after the second add the carbs total
\* shown is the rounded sum of that and of the other entries' contributions.
C21_SecondAddCountsPassedFoodTwice ==
    [][\A i \in DOMAIN cards :
          LET food == cards[i].food
              m2 == MultiplierOf(cards[i].quantity)
          IN  (/\ ClickAdd(i)
               /\ food.name \in DOMAIN shoppingList
               /\ shoppingList[food.name].count = 1)
              => IsRounded(totals'[1].carbs,
                           food.carbs * m2 * 2
                           + ContributionSum(DOMAIN shoppingList \ {food.name},
                                             "carbs"),
                           1000)]_vars

-----------------------------------------------------------------------------
(* Properties of the multipliers.                                          *)

\* C22: in every reachable state every entry of shoppingList has a strictly
\* positive multiplier, whatever gram quantity was entered in the card's
\* quantity input before the add or the quantity change.
C22_MultipliersArePositive ==
    \A n \in DOMAIN shoppingList : shoppingList[n].multiplier > 0

-----------------------------------------------------------------------------
(* Properties of the parsed values and of the rendered shopping list.      *)

\* C23: every Food that parseCSVToFoods produces has non-negative protein,
\* fat, carbs, cholesterol and calories, whatever tokens stand in the
\* numeric fields of the line, a leading minus sign included.
C23_ParsedValuesAreNonNegative ==
    parserCall.fn = "parseCSVToFoods" =>
        \A i \in DOMAIN parserCall.result :
            LET food == parserCall.result[i]
            IN  /\ food.protein >= 0
                /\ food.fat >= 0
                /\ food.carbs >= 0
                /\ food.cholesterol >= 0
                /\ food.calories >= 0

\* C24: after every completed add, remove, quantity change and reset the
\* rendered shopping list shows exactly the entries of shoppingList, each
\* with its count and its gram quantity multiplier * 100, and shows the
\* empty placeholder exactly when the mapping is empty.
C24_RenderedListMatchesMapping ==
    /\ shoppingListView.empty <=> DOMAIN shoppingList = {}
    /\ DOMAIN shoppingListView.items = DOMAIN shoppingList
    /\ \A n \in DOMAIN shoppingList :
          /\ shoppingListView.items[n].count = shoppingList[n].count
          /\ shoppingListView.items[n].grams = shoppingList[n].multiplier

-----------------------------------------------------------------------------
(* Properties of the displayed cards.                                      *)

\* C25: once the dataset has loaded, the displayed sequence of cards is, in
\* every state between two handlers, the filter and sort pipeline applied to
\* allFoods with the current values of the name, carbs, calories, category
\* and search controls and the current sort option, whatever the order of
\* the load and of the filter, sort and search events.
C25_CardsFollowTheControls ==
    loadState = "loaded" =>
        ShownFoods = SortFoods(FilteredFoods(allFoods, CurrentCriteria),
                               currentSortOption)

-----------------------------------------------------------------------------
(* Frame properties of the shopping list.                                  *)

\* The entry of every name but name is the same before and after the step.
OtherEntriesUnchanged(name) ==
    /\ DOMAIN shoppingList' \ {name} = DOMAIN shoppingList \ {name}
    /\ \A n \in DOMAIN shoppingList \ {name} : shoppingList'[n] = shoppingList[n]

\* A step of a filter control, of the sort control, of the search box or of
\* the budget input.
ViewStep ==
    \/ \E v \in foodNameOptions : ChangeFoodName(v)
    \/ \E v \in CarbsFilterValues : ChangeCarbsFilter(v)
    \/ \E v \in CaloriesFilterValues : ChangeCaloriesFilter(v)
    \/ \E v \in categoryOptions : ChangeCategoryFilter(v)
    \/ \E v \in SortOptions : ChangeSortBy(v)
    \/ \E v \in SearchTerms : SearchInput(v)
    \/ \E v \in BudgetInputs : UpdateMaxDailyCarbs(v)

\* C26: addToShoppingList, removeFromShoppingList and a quantity change for
\* a food named A leave the count and the multiplier of every other name
\* unchanged, and filtering, sorting, searching and budget updates leave the
\* whole shoppingList mapping unchanged.
C26_OtherEntriesAndViewStepsKeepList ==
    [][/\ \A i \in DOMAIN cards :
             (\/ ClickAdd(i)
              \/ ClickRemove(i)
              \/ \E q \in QuantityInputs : ChangeQuantity(i, q))
             => OtherEntriesUnchanged(cards[i].food.name)
       /\ ViewStep => shoppingList' = shoppingList]_vars

\* C26, witness: Ham has been added twice, the second time at 150 g, while
\* Yam keeps the entry it got at 100 g, and a filter and the budget are set.
C26_Witness ==
    /\ DOMAIN shoppingList = {Ham, Yam}
    /\ shoppingList[Ham] = [count |-> 2, multiplier |-> 150]
    /\ shoppingList[Yam] = [count |-> 1, multiplier |-> 100]
    /\ carbsFilter = "low"
    /\ maxDailyCarbs = Num(8)

=============================================================================
